---- MODULE Spec2Model ----
(***************************************************************************)
(* Replay memory of the DeepAgent DQN agent: ExperienceReplay (uniform,    *)
(* a deque with maxlen) and PrioritizedExperienceReplay (a list with a     *)
(* parallel priority array), from DeepAgent/utils/buffer.py.               *)
(*                                                                         *)
(* A transition is identified by the serial number of the append call that *)
(* stored it (1, 2, 3, ...).  Indices are 0-based as in the source; the    *)
(* element at source index i of a sequence s is s[i + 1].  Priorities and  *)
(* absolute TD errors are counted in units of the priority floor epsilon   *)
(* (1e-3), so the floor itself is 1.                                       *)
(***************************************************************************)
EXTENDS Integers, Sequences, FiniteSets, TLC

\* Bounds of the model.
MaxSize == 3
MaxBatch == 2
MaxErr == 1
MaxAppends == 4

\* PrioritizedExperienceReplay.__init__: epsilon=1e-3, the unit of priority.
epsilon == 1

\* Hyperparameters of Agent.__init__, scaled down so that every phase of the
\* training loop is reached within a few steps.  The scaling keeps their
\* order: memory_size < replay_start_size < epsilon_decay_steps, and
\* train_batch_size <= memory_size.
memory_size == 2                    \* ExperienceReplay(size=200, ...)
train_batch_size == 2               \* batch_size = 32
update_frequency == 2               \* update_frequency = 4
target_network_update_freq == 4     \* target_network_update_freq = 1000
replay_start_size == 3              \* replay_start_size = 250
epsilon_decay_steps == 6            \* epsilon_decay_steps = 1000000
terminal_frame_factor == 2          \* get_eps(..., terminal_frame_factor=25)
training_frames == 8                \* training_frames = int(1e7)
n_actions == 2                      \* self.env.action_space.n
NVars == 2                          \* number of trainable variables of DQNNetwork

\* Further bounds: steps an episode may run past training_frames, steps
\* get_eps is applied to beyond terminal_eps_frame, values of the uniform
\* draw of get_action, largest Q-value and largest reward.
MaxOverrun == 2
MaxEpsBeyond == 2
UDraws == 4
MaxQ == 1
MaxReward == 1

\* Exploration rates in units of 0.01.
epsilon_start == 100                \* epsilon_start = 1.0
epsilon_end == 2                    \* epsilon_end = 0.02
terminal_eps == 1                   \* get_eps(..., terminal_eps=0.01)

\* gamma = 0.99, in units of 0.01.
gamma == 99

VARIABLES
    kind,           \* "ER" (ExperienceReplay) or "PER" (PrioritizedExperienceReplay)
    size,           \* self.size, the capacity
    batch_size,     \* self.batch_size
    buffer,         \* self._buffer, oldest slot first
    priorities,     \* self.priorities (stays empty for "ER")
    current_size,   \* self.current_size
    appended,       \* number of append calls so far
    op,             \* the last call made on the buffer
    arg,            \* its arguments: [indices, abs_errors]
    ret,            \* its outcome: [ok, val]; ok = FALSE when it raised
    \* Agent (dqn_v2.py)
    pc,             \* position of Agent.train in its loop ("idle": no training)
    total_step,     \* total_step of Agent.train
    episode,        \* episode of Agent.train
    done,           \* done, as the last env.step reported it
    eps,            \* eps, the exploration rate of the current step
    action,         \* [action, consulted]: the action taken and whether self.model was evaluated
    main_w,         \* self.model.trainable_variables, one version number per variable
    target_w,       \* self.target_network.trainable_variables, likewise
    td_w,           \* the parameters the last TD targets were computed from
    events,         \* the events of the current loop iteration, in order
    last_learn,     \* total_step of the last update_main_q_network call (-1: none)
    last_sync,      \* total_step of the last update_target_network call (-1: none)
    call,           \* the last application of get_eps, get_action or the TD target
    runs,           \* two runs of the agent side by side: the draws each has made
    \* Environment wrappers (game.py)
    wrapper,        \* the wrapper class in use ("none": no wrapper)
    lives,          \* EpisodicLife.lives
    was_real_done,  \* EpisodicLife.was_real_done
    episode_returns,\* EpisodicLife.episode_returns
    step_count,     \* StepLimit.step_count
    frames,         \* StackFrame.frames, oldest frame first
    inner,          \* the wrapped environment, self.env
    wret,           \* the last call made on the wrapper and its outcome
    hist,           \* what the calls so far have been, for the properties
    \* Agent.play (dqn_v2.py)
    play_pc,        \* position of Agent.play ("idle": no play)
    life_game,      \* self.life_game
    trial_i,        \* trials of the for loop that are over
    test_step,      \* test_step
    n_frames,       \* len(frames)
    info_lives,     \* info["lives"] of the last test_env.step
    trial_steps     \* test_env.step calls of the current trial

bufVars == <<kind, size, batch_size, buffer, priorities, current_size, appended, op, arg, ret>>
agentVars == <<pc, total_step, episode, done, eps, action, main_w, target_w, td_w, events,
               last_learn, last_sync, call, runs>>
envVars == <<wrapper, lives, was_real_done, episode_returns, step_count, frames, inner, wret,
             hist>>
playVars == <<play_pc, life_game, trial_i, test_step, n_frames, info_lives, trial_steps>>
vars == <<bufVars, agentVars, envVars, playVars>>

NoArg == [indices |-> <<>>, abs_errors |-> <<>>]
Returned(v) == [ok |-> TRUE, val |-> v]
Raised == [ok |-> FALSE, val |-> <<>>]

Min2(a, b) == IF a <= b THEN a ELSE b

\* All sequences over S of length exactly n.
SeqsOf(S, n) == [1..n -> S]

Distinct(s) == \A i, j \in 1..Len(s) : i # j => s[i] # s[j]

----------------------------------------------------------------------------
\* Construction

\* IBaseBuffer.__init__ (DeepAgent/interfaces/IBaseBuffer.py): keeps the
\* capacity and the batch size and starts with no live transition.
IBaseBuffer_init ==
    /\ size \in 1..MaxSize
    /\ batch_size \in 1..MaxBatch
    /\ current_size = 0

\* No agent: the buffer is used on its own.
NoCall ==
    [fn |-> "none", step |-> 0, rate |-> 0, u |-> 0, q |-> <<>>, reward |-> 0, done |-> FALSE,
     out |-> 0, consulted |-> FALSE, prev_step |-> -1, prev_out |-> 0]
NoRuns == [r \in 1..2 |-> [actions |-> <<>>, samples |-> <<>>]]
AgentIdle ==
    /\ pc = "idle"
    /\ total_step = 0
    /\ episode = 0
    /\ done = FALSE
    /\ eps = 0
    /\ action = [action |-> 0, consulted |-> FALSE]
    /\ main_w = <<>>
    /\ target_w = <<>>
    /\ td_w = <<>>
    /\ events = <<>>
    /\ last_learn = -1
    /\ last_sync = -1
    /\ call = NoCall
    /\ runs = NoRuns

\* No wrapper and no play: the wrapped environment has not been made.
NoInner == [lives |-> 0, resets |-> 0, steps |-> 0, last_done |-> FALSE, last_action |-> 0]
NoWret == [op |-> "none", ok |-> TRUE, obs |-> <<>>, done |-> FALSE]
NoHist ==
    [calls |-> 0, reset_called |-> FALSE, since_reset |-> 0, ep_len |-> 0, ep_over |-> FALSE,
     step_done |-> TRUE, obs_hist |-> <<>>]
EnvIdle ==
    /\ wrapper = "none"
    /\ lives = 0
    /\ was_real_done = TRUE
    /\ episode_returns = 0
    /\ step_count = 0
    /\ frames = <<>>
    /\ inner = NoInner
    /\ wret = NoWret
    /\ hist = NoHist
PlayIdle ==
    /\ play_pc = "idle"
    /\ life_game = FALSE
    /\ trial_i = 0
    /\ test_step = 0
    /\ n_frames = 0
    /\ info_lives = 0
    /\ trial_steps = 0

\* ExperienceReplay.__init__: deque(maxlen=size).
\* PrioritizedExperienceReplay.__init__: _buffer = [], priorities = np.array([]).
Init ==
    /\ kind \in {"ER", "PER"}
    /\ IBaseBuffer_init
    /\ buffer = <<>>
    /\ priorities = <<>>
    /\ appended = 0
    /\ op = "init"
    /\ arg = NoArg
    /\ ret = Returned(<<>>)
    /\ AgentIdle
    /\ EnvIdle
    /\ PlayIdle

----------------------------------------------------------------------------
\* ExperienceReplay.append

\* deque.append on a deque(maxlen): a full deque discards its left end.
DequeAppendUnbounded(d, x, maxlen) == Append(d, x)
DequeAppendDropNewest(d, x, maxlen) ==
    IF Len(d) = maxlen THEN d ELSE Append(d, x)
DequeAppend(d, x, maxlen) ==
    IF maxlen = 0 THEN d
    ELSE IF Len(d) = maxlen THEN Append(Tail(d), x)
    ELSE Append(d, x)

ER_append ==
    /\ kind = "ER"
    /\ appended < MaxAppends
    /\ appended' = appended + 1
    /\ buffer' = DequeAppend(buffer, appended + 1, size)
    /\ current_size' = Len(buffer')
    /\ op' = "append"
    /\ arg' = NoArg
    /\ ret' = Returned(<<>>)
    /\ UNCHANGED <<agentVars, envVars, playVars, kind, size, batch_size, priorities>>

----------------------------------------------------------------------------
\* PrioritizedExperienceReplay.append

\* ndarray.max() of a non-empty array.
MaxOf(p) == CHOOSE m \in {p[i] : i \in 1..Len(p)} : \A i \in 1..Len(p) : p[i] <= m

\* np.argmin: the 0-based index of the first occurrence of the minimum.
ArgMinLast(p) ==
    CHOOSE i \in 0..(Len(p) - 1) :
        /\ \A j \in 0..(Len(p) - 1) : p[i + 1] <= p[j + 1]
        /\ \A j \in (i + 1)..(Len(p) - 1) : p[j + 1] > p[i + 1]
ArgMin(p) ==
    CHOOSE i \in 0..(Len(p) - 1) :
        /\ \A j \in 0..(Len(p) - 1) : p[i + 1] <= p[j + 1]
        /\ \A j \in 0..(i - 1) : p[j + 1] > p[i + 1]

\* The priority given to a new transition (line 86; line 90 uses max()).
NewPriorityFloor(p) == epsilon
NewPriority(p) == IF Len(p) = 0 THEN epsilon ELSE MaxOf(p)

\* self._buffer after append: list.append under capacity, else overwrite
\* the slot np.argmin(self.priorities).
PER_append_buffer(buf, pri, cur, sz, t) ==
    IF cur < sz
    THEN Append(buf, t)
    ELSE [buf EXCEPT ![ArgMin(pri) + 1] = t]

\* self.priorities after append: np.append under capacity, else the
\* evicted slot takes self.priorities.max().
PER_append_priorities_grow(pri, cur, sz) == Append(pri, NewPriority(pri))
PER_append_priorities(pri, cur, sz) ==
    IF cur < sz
    THEN Append(pri, NewPriority(pri))
    ELSE [pri EXCEPT ![ArgMin(pri) + 1] = MaxOf(pri)]

PER_append ==
    /\ kind = "PER"
    /\ appended < MaxAppends
    /\ appended' = appended + 1
    /\ buffer' = PER_append_buffer(buffer, priorities, current_size, size, appended + 1)
    /\ priorities' = PER_append_priorities(priorities, current_size, size)
    /\ current_size' = Len(buffer')
    /\ op' = "append"
    /\ arg' = NoArg
    /\ ret' = Returned(<<>>)
    /\ UNCHANGED <<agentVars, envVars, playVars, kind, size, batch_size>>

----------------------------------------------------------------------------
\* ExperienceReplay.get_sample_indices

\* The exclusive upper end of np.random.randint(low=0, high=self.size).
RandintHigh(sz, cur) == sz

ER_get_sample_indices ==
    /\ kind = "ER"
    /\ \E ix \in SeqsOf(0..(RandintHigh(size, current_size) - 1), batch_size) :
           ret' = Returned(ix)
    /\ op' = "get_sample_indices"
    /\ arg' = NoArg
    /\ UNCHANGED <<agentVars, envVars, playVars, kind, size, batch_size, buffer, priorities, current_size, appended>>

----------------------------------------------------------------------------
\* PrioritizedExperienceReplay.get_sample_indices

\* (k * 1e-3) ** 0.6 in float64, in units of 1e-6 rounded down, for the
\* priority k * epsilon (prob_alpha = 0.6).
PowTable == <<0, 15848, 24022, 30638, 36411, 41627, 46439, 50939, 55189>>
PowAlpha(p) == PowTable[p + 1]

\* probs = self.priorities ** self.prob_alpha
Probs(pri) == [i \in 1..Len(pri) |-> PowAlpha(pri[i])]

RECURSIVE SumSeq(_)
SumSeq(s) == IF Len(s) = 0 THEN 0 ELSE Head(s) + SumSeq(Tail(s))

\* probs.sum(), the divisor of the normalisation at line 95.
ProbsSum(pri) == SumSeq(Probs(pri))

\* np.random.choice(n, b, p=w / total, replace=False): the outcomes it can
\* have.  It raises ValueError on an empty population, on b > n, on NaN
\* probabilities (0 / 0) and on fewer than b non-zero probabilities;
\* otherwise it returns b pairwise distinct indices of non-zero probability.
ChoiceWithReplacement(n, b, w, total) ==
    IF n = 0 \/ total = 0
    THEN {Raised}
    ELSE {Returned(s) : s \in {x \in SeqsOf(0..(n - 1), b) : \A k \in 1..b : w[x[k] + 1] > 0}}
Choice(n, b, w, total) ==
    IF \/ n = 0
       \/ b > n
       \/ total = 0
       \/ Cardinality({i \in 0..(n - 1) : w[i + 1] > 0}) < b
    THEN {Raised}
    ELSE {Returned(s) : s \in {x \in SeqsOf(0..(n - 1), b) :
                                   Distinct(x) /\ \A k \in 1..b : w[x[k] + 1] > 0}}

\* self.priorities after the call: line 94 binds probs to a new array, so the
\* in-place division of line 95 leaves self.priorities alone.
PrioritiesAfterSamplingInPlace(pri) ==
    [i \in 1..Len(pri) |-> pri[i] \div SumSeq(pri)]
PrioritiesAfterSampling(pri) == pri

PER_get_sample_indices ==
    /\ kind = "PER"
    /\ \E r \in Choice(Len(buffer), batch_size, Probs(priorities), ProbsSum(priorities)) :
           ret' = r
    /\ priorities' = PrioritiesAfterSampling(priorities)
    /\ op' = "get_sample_indices"
    /\ arg' = NoArg
    /\ UNCHANGED <<agentVars, envVars, playVars, kind, size, batch_size, buffer, current_size, appended>>

----------------------------------------------------------------------------
\* ExperienceReplay.get_sample (inherited by PrioritizedExperienceReplay)

\* self._buffer[index] for each index in order; an index past the stored
\* transitions raises IndexError.
GetSample(buf, indices) ==
    IF \E k \in 1..Len(indices) : indices[k] >= Len(buf)
    THEN Raised
    ELSE Returned([k \in 1..Len(indices) |-> buf[indices[k] + 1]])

\* Called, as in the training loop, on the indices get_sample_indices returned.
get_sample ==
    /\ op = "get_sample_indices"
    /\ ret.ok
    /\ ret' = GetSample(buffer, ret.val)
    /\ op' = "get_sample"
    /\ arg' = [indices |-> ret.val, abs_errors |-> <<>>]
    /\ UNCHANGED <<agentVars, envVars, playVars, kind, size, batch_size, buffer, priorities, current_size, appended>>

----------------------------------------------------------------------------
\* PrioritizedExperienceReplay.update_priorities

\* ndarray fancy-index assignment a[indices] = vals: element by element, in
\* order, so that the last assignment to a repeated index wins.
RECURSIVE AssignAt(_, _, _, _)
AssignAt(a, indices, vals, k) ==
    IF k > Len(indices)
    THEN a
    ELSE AssignAt([a EXCEPT ![indices[k] + 1] = vals[k]], indices, vals, k + 1)

\* self.priorities[indices] = abs_errors + self.epsilon
PER_update_no_floor(pri, indices, abs_errors) ==
    AssignAt(pri, indices, abs_errors, 1)
PER_update(pri, indices, abs_errors) ==
    AssignAt(pri, indices, [k \in 1..Len(abs_errors) |-> abs_errors[k] + epsilon], 1)

\* Called, as the learner does, with the indices of the batch just sampled
\* and one absolute TD error (>= 0) for each of them.
PER_update_priorities ==
    /\ kind = "PER"
    /\ op \in {"get_sample_indices", "get_sample"}
    /\ ret.ok
    /\ LET indices == IF op = "get_sample" THEN arg.indices ELSE ret.val
       IN  \E abs_errors \in SeqsOf(0..MaxErr, Len(indices)) :
               /\ priorities' = PER_update(priorities, indices, abs_errors)
               /\ arg' = [indices |-> indices, abs_errors |-> abs_errors]
    /\ op' = "update_priorities"
    /\ ret' = Returned(<<>>)
    /\ UNCHANGED <<agentVars, envVars, playVars, kind, size, batch_size, buffer, current_size, appended>>

----------------------------------------------------------------------------
Next ==
    \/ ER_append
    \/ PER_append
    \/ ER_get_sample_indices
    \/ PER_get_sample_indices
    \/ get_sample
    \/ PER_update_priorities

Spec == Init /\ [][Next]_vars

----------------------------------------------------------------------------
\* Properties of the replay buffers

\* C1: for both buffers, after any sequence of append calls the buffer never
\* holds more than `size` transitions, and current_size equals len(buffer)
\* equals min(number of appends so far, size).
CapacityInvariant ==
    /\ Len(buffer) <= size
    /\ current_size = Len(buffer)
    /\ Len(buffer) = Min2(appended, size)

\* An append has been made on a full uniform buffer.
CapacityWitness ==
    kind = "ER" /\ op = "append" /\ appended > size /\ Len(buffer) = size

\* C2: in the prioritized buffer, after every append and update_priorities
\* the priorities array has exactly one entry per stored transition, at the
\* same index.
PrioritiesMatchBuffer ==
    kind = "PER" => DOMAIN priorities = DOMAIN buffer

\* Priorities were updated on a buffer that has already evicted a transition.
PrioritiesMatchWitness ==
    kind = "PER" /\ op = "update_priorities" /\ appended > size

\* C3: after C + k appends (k >= 0) the uniform buffer of capacity C holds
\* exactly the last C appended transitions, oldest at index 0 and newest at
\* index C - 1 (and all of them, in order, before it is full).
FifoEviction ==
    kind = "ER" =>
        LET n == Min2(appended, size)
        IN  buffer = [i \in 1..n |-> appended - n + i]

\* Two transitions have been evicted from a uniform buffer of capacity >= 2.
FifoWitness ==
    kind = "ER" /\ size >= 2 /\ appended >= size + 2

\* C4: an append to a prioritized buffer at capacity overwrites exactly the
\* slot of minimum priority, the lowest index among ties, and leaves the
\* transition and the priority of every other slot unchanged.
MinPriorityEviction ==
    [][ (kind = "PER" /\ op' = "append" /\ appended' = appended + 1 /\ Len(buffer) = size) =>
          \E idx \in 0..(size - 1) :
              /\ \A j \in 0..(size - 1) : priorities[idx + 1] <= priorities[j + 1]
              /\ \A j \in 0..(idx - 1) : priorities[j + 1] # priorities[idx + 1]
              /\ Len(buffer') = size
              /\ Len(priorities') = size
              /\ buffer'[idx + 1] = appended'
              /\ \A j \in 0..(size - 1) :
                     j # idx => /\ buffer'[j + 1] = buffer[j + 1]
                                /\ priorities'[j + 1] = priorities[j + 1]
      ]_vars

\* An append at capacity has just overwritten a slot other than index 0 while
\* the oldest transition of all is still stored at index 0: not by age.
MinPriorityEvictionWitness ==
    /\ kind = "PER" /\ op = "append" /\ appended > size
    /\ \E i \in 2..Len(buffer) : buffer[i] = appended
    /\ buffer[1] = 1

\* C5: every append to the prioritized buffer gives the new transition the
\* priority epsilon if the buffer was empty and otherwise the maximum
\* priority present just before the append, under capacity and at capacity;
\* append never changes the maximum priority of a non-empty buffer.
OptimisticPriority ==
    [][ (kind = "PER" /\ op' = "append" /\ appended' = appended + 1) =>
          /\ \E i \in 1..Len(buffer') :
                 /\ buffer'[i] = appended'
                 /\ IF Len(buffer) = 0
                    THEN priorities'[i] = epsilon
                    ELSE /\ \E j \in 1..Len(priorities) : priorities[j] = priorities'[i]
                         /\ \A j \in 1..Len(priorities) : priorities[j] <= priorities'[i]
          /\ Len(buffer) > 0 =>
                 /\ \A i \in 1..Len(priorities') :
                        \E j \in 1..Len(priorities) : priorities'[i] <= priorities[j]
                 /\ \A j \in 1..Len(priorities) :
                        \E i \in 1..Len(priorities') : priorities[j] <= priorities'[i]
      ]_vars

\* A transition appended at capacity carries a priority above the floor while
\* a lower priority is still present.
OptimisticPriorityWitness ==
    /\ kind = "PER" /\ op = "append" /\ appended > size
    /\ \E i, j \in 1..Len(buffer) :
           buffer[i] = appended /\ priorities[i] > epsilon /\ priorities[j] < priorities[i]

\* C6: for a uniform buffer holding current_size >= 1 transitions, every
\* index returned by get_sample_indices lies in [0, current_size), so that
\* get_sample on those indices refers to stored transitions only.
UniformIndicesInCurrentSize ==
    (kind = "ER" /\ current_size >= 1) =>
        /\ op = "get_sample_indices" =>
               \A k \in 1..Len(ret.val) : ret.val[k] \in 0..(current_size - 1)
        /\ op = "get_sample" => ret.ok

\* C7: after update_priorities(indices, abs_errors) with pairwise distinct
\* valid indices, priorities[indices[k]] = abs_errors[k] + epsilon for every
\* k, every other priority is unchanged, and the stored transitions and
\* current_size are unchanged.
PriorityUpdateRoundTrip ==
    [][ (op' = "update_priorities" /\ Distinct(arg'.indices)) =>
          /\ Len(arg'.abs_errors) = Len(arg'.indices)
          /\ \A k \in 1..Len(arg'.indices) :
                 priorities'[arg'.indices[k] + 1] = arg'.abs_errors[k] + epsilon
          /\ Len(priorities') = Len(priorities)
          /\ \A i \in 0..(Len(priorities) - 1) :
                 (\A k \in 1..Len(arg'.indices) : arg'.indices[k] # i) =>
                     priorities'[i + 1] = priorities[i + 1]
          /\ buffer' = buffer
          /\ current_size' = current_size
      ]_vars

\* Two indices were updated with different errors, the second index before
\* the first, and a third slot was not among them.
PriorityUpdateWitness ==
    /\ op = "update_priorities"
    /\ Len(arg.indices) = 2
    /\ arg.indices[2] < arg.indices[1]
    /\ arg.abs_errors[1] # arg.abs_errors[2]
    /\ \E i \in 0..(Len(priorities) - 1) : \A k \in 1..2 : arg.indices[k] # i

\* C8 (as stated): after any sequence of append and update_priorities calls
\* every stored priority is >= epsilon > 0, every stored transition has a
\* non-zero sampling probability, and the normalising sum of
\* get_sample_indices is not zero.
PriorityFloorSumNeverZero ==
    kind = "PER" =>
        /\ epsilon > 0
        /\ \A i \in 1..Len(priorities) : priorities[i] >= epsilon
        /\ \A i \in 1..Len(priorities) : Probs(priorities)[i] > 0
        /\ ProbsSum(priorities) # 0

\* C8 (amended): every stored priority is >= epsilon > 0, every stored
\* transition has a non-zero sampling probability, and the normalising sum
\* is not zero whenever the buffer holds at least one transition.
PriorityFloor ==
    kind = "PER" =>
        /\ epsilon > 0
        /\ \A i \in 1..Len(priorities) : priorities[i] >= epsilon
        /\ \A i \in 1..Len(priorities) : Probs(priorities)[i] > 0
        /\ Len(buffer) > 0 => ProbsSum(priorities) # 0

\* An update with a zero error has put a priority back on the floor, on a
\* buffer that also holds a priority above it.
PriorityFloorWitness ==
    /\ kind = "PER" /\ op = "update_priorities"
    /\ \E k \in 1..Len(arg.indices) :
           arg.abs_errors[k] = 0 /\ priorities[arg.indices[k] + 1] = epsilon
    /\ \E i \in 1..Len(priorities) : priorities[i] > epsilon

\* C9: whenever batch_size <= current_size, get_sample_indices of the
\* prioritized buffer returns exactly batch_size pairwise distinct indices,
\* each in [0, current_size).
PrioritizedSampleDistinct ==
    (kind = "PER" /\ op = "get_sample_indices" /\ batch_size <= current_size) =>
        /\ ret.ok
        /\ Len(ret.val) = batch_size
        /\ Distinct(ret.val)
        /\ \A k \in 1..Len(ret.val) : ret.val[k] \in 0..(current_size - 1)

\* A batch of two was drawn from a prioritized buffer of unequal priorities.
PrioritizedSampleWitness ==
    /\ kind = "PER" /\ op = "get_sample_indices" /\ ret.ok
    /\ batch_size = 2
    /\ \E i, j \in 1..Len(priorities) : priorities[i] # priorities[j]

\* C10: get_sample_indices of the prioritized buffer fails, returning no
\* indices, when batch_size > current_size, and whether it fails or succeeds
\* it leaves the buffer, the priorities and current_size as they were.
PrioritizedSampleFrame ==
    [][ (kind = "PER" /\ op' = "get_sample_indices") =>
          /\ buffer' = buffer
          /\ priorities' = priorities
          /\ current_size' = current_size
          /\ batch_size > current_size => (~ret'.ok /\ ret'.val = <<>>)
      ]_vars

\* A batch larger than a non-empty buffer was requested, and the call failed.
PrioritizedSampleErrorWitness ==
    /\ kind = "PER" /\ op = "get_sample_indices"
    /\ current_size >= 1 /\ batch_size > current_size
    /\ ~ret.ok

----------------------------------------------------------------------------
\* Agent.get_eps

terminal_eps_frame == epsilon_decay_steps * terminal_frame_factor

\* Exploration rates are exact rationals: a rate is kept as the integer
\* rate * EpsDen / 0.01, EpsDen being the product of the two slope divisors.
EpsDen == (epsilon_decay_steps - replay_start_size) * (terminal_eps_frame - epsilon_decay_steps)

get_eps_restart(current_step) ==
    IF current_step < replay_start_size
    THEN epsilon_start * EpsDen
    ELSE IF current_step < epsilon_decay_steps
    THEN (epsilon_end - epsilon_start) * (current_step - replay_start_size)
             * (terminal_eps_frame - epsilon_decay_steps) + epsilon_start * EpsDen
    ELSE IF current_step < terminal_eps_frame
    THEN (terminal_eps - epsilon_end) * (current_step - replay_start_size)
             * (epsilon_decay_steps - replay_start_size) + epsilon_end * EpsDen
    ELSE terminal_eps * EpsDen
get_eps(current_step) ==
    IF current_step < replay_start_size
    THEN epsilon_start * EpsDen
    ELSE IF current_step < epsilon_decay_steps
    THEN (epsilon_end - epsilon_start) * (current_step - replay_start_size)
             * (terminal_eps_frame - epsilon_decay_steps) + epsilon_start * EpsDen
    ELSE IF current_step < terminal_eps_frame
    THEN (terminal_eps - epsilon_end) * (current_step - epsilon_decay_steps)
             * (epsilon_decay_steps - replay_start_size) + epsilon_end * EpsDen
    ELSE terminal_eps * EpsDen

----------------------------------------------------------------------------
\* Agent.get_action

\* Q-values a network can put out, one per action.
QValues == (0 - MaxQ)..MaxQ
QVectors == SeqsOf(QValues, n_actions)

\* tf.random.uniform((), 0, 1): values of [0, 1), on the scale of the rates.
UValues == {(k * 100 * EpsDen) \div UDraws : k \in 0..(UDraws - 1)}

\* tf.math.argmax(q_value, axis=1): the smallest index of a maximal entry.
ArgMaxLast(q) ==
    CHOOSE i \in 0..(Len(q) - 1) :
        /\ \A j \in 0..(Len(q) - 1) : q[j + 1] <= q[i + 1]
        /\ \A j \in (i + 1)..(Len(q) - 1) : q[j + 1] < q[i + 1]
ArgMax(q) ==
    CHOOSE i \in 0..(Len(q) - 1) :
        /\ \A j \in 0..(Len(q) - 1) : q[j + 1] <= q[i + 1]
        /\ \A j \in 0..(i - 1) : q[j + 1] < q[i + 1]

\* The outcomes of get_action for the uniform draw u: a random action index
\* without evaluating self.model, or the argmax of self.model's output q.
GetAction(u, exploration_rate, q) ==
    IF u < exploration_rate
    THEN {[action |-> a, consulted |-> FALSE] : a \in 0..(n_actions - 1)}
    ELSE {[action |-> ArgMax(q), consulted |-> TRUE]}

----------------------------------------------------------------------------
\* Agent.update_main_q_network: the TD target of one sample

\* tf.math.reduce_max(next_state_q, axis=1)
ReduceMax(q) == CHOOSE m \in {q[i] : i \in 1..Len(q)} : \A i \in 1..Len(q) : q[i] <= m

\* tf.cast(dones, tf.float32)
CastBool(d) == IF d THEN 1 ELSE 0

\* expected_q = rewards + self.gamma * next_state_max_q * (1.0 - dones), in
\* units of 0.01.
TDTargetNoMask(reward, d, next_state_q) ==
    100 * reward + gamma * ReduceMax(next_state_q)
TDTarget(reward, d, next_state_q) ==
    100 * reward + gamma * ReduceMax(next_state_q) * (1 - CastBool(d))

----------------------------------------------------------------------------
\* The three functions applied to inputs of their domains

Call(fn, step, rate, u, q, reward, d, out, consulted, prev_step, prev_out) ==
    [fn |-> fn, step |-> step, rate |-> rate, u |-> u, q |-> q, reward |-> reward,
     done |-> d, out |-> out, consulted |-> consulted,
     prev_step |-> prev_step, prev_out |-> prev_out]

EpsSteps == 0..(terminal_eps_frame + MaxEpsBeyond)

\* exploration_rate: a value of the schedule, or 0 as Agent.play passes it.
Rates == {0} \cup {get_eps(st) : st \in EpsSteps}

\* The arguments of one application, drawn from the functions' domains:
\* two steps for two successive get_eps calls; a rate, a uniform draw and the
\* network's output for get_action; a sample for the TD target.
FnInputs ==
    {Call("arg:get_eps", st, 0, 0, <<>>, 0, FALSE, 0, FALSE, pst, 0) :
         st \in EpsSteps, pst \in EpsSteps}
    \cup {Call("arg:get_action", 0, rate, u, q, 0, FALSE, 0, FALSE, -1, 0) :
              rate \in Rates, u \in UValues, q \in QVectors}
    \cup {Call("arg:td_target", 0, 0, 0, q, reward, d, 0, FALSE, -1, 0) :
              reward \in (0 - MaxReward)..MaxReward, d \in BOOLEAN, q \in QVectors}

FnInit ==
    /\ kind = "ER"
    /\ size = memory_size
    /\ batch_size = train_batch_size
    /\ current_size = 0
    /\ buffer = <<>>
    /\ priorities = <<>>
    /\ appended = 0
    /\ op = "init"
    /\ arg = NoArg
    /\ ret = Returned(<<>>)
    /\ pc = "idle"
    /\ total_step = 0
    /\ episode = 0
    /\ done = FALSE
    /\ eps = 0
    /\ action = [action |-> 0, consulted |-> FALSE]
    /\ main_w = <<>>
    /\ target_w = <<>>
    /\ td_w = <<>>
    /\ events = <<>>
    /\ last_learn = -1
    /\ last_sync = -1
    /\ runs = NoRuns
    /\ call \in FnInputs
    /\ EnvIdle
    /\ PlayIdle

\* self.get_eps(prev_step) and then self.get_eps(step)
ApplyGetEps ==
    /\ call.fn = "arg:get_eps"
    /\ call' = [call EXCEPT !.fn = "get_eps",
                            !.prev_out = get_eps(call.prev_step),
                            !.out = get_eps(call.step)]
    /\ UNCHANGED <<bufVars, envVars, playVars, pc, total_step, episode, done, eps, action, main_w, target_w,
                   td_w, events, last_learn, last_sync, runs>>

\* action = self.get_action(state, exploration_rate)
ApplyGetAction ==
    /\ call.fn = "arg:get_action"
    /\ \E r \in GetAction(call.u, call.rate, call.q) :
           call' = [call EXCEPT !.fn = "get_action",
                                !.out = r.action,
                                !.consulted = r.consulted]
    /\ UNCHANGED <<bufVars, envVars, playVars, pc, total_step, episode, done, eps, action, main_w, target_w,
                   td_w, events, last_learn, last_sync, runs>>

\* expected_q of one sample (reward, done, target_network(new_state))
ApplyTDTarget ==
    /\ call.fn = "arg:td_target"
    /\ call' = [call EXCEPT !.fn = "td_target",
                            !.out = TDTarget(call.reward, call.done, call.q)]
    /\ UNCHANGED <<bufVars, envVars, playVars, pc, total_step, episode, done, eps, action, main_w, target_w,
                   td_w, events, last_learn, last_sync, runs>>

FnNext ==
    \/ ApplyGetEps
    \/ ApplyGetAction
    \/ ApplyTDTarget

SpecFn == FnInit /\ [][FnNext]_vars

----------------------------------------------------------------------------
\* Agent.__init__ and Agent.train

\* self.model and self.target_network are two DQNNetwork objects, each with
\* its own initial parameters; a parameter is known by its version number.
InitMain == [i \in 1..NVars |-> 0]
InitTarget == [i \in 1..NVars |-> -1]

TrainInit ==
    /\ kind = "ER"
    /\ size = memory_size
    /\ batch_size = train_batch_size
    /\ current_size = 0
    /\ buffer = <<>>
    /\ priorities = <<>>
    /\ appended = 0
    /\ op = "init"
    /\ arg = NoArg
    /\ ret = Returned(<<>>)
    /\ pc = "while"
    /\ total_step = 0
    /\ episode = 0
    /\ done = FALSE
    /\ eps = 0
    /\ action = [action |-> 0, consulted |-> FALSE]
    /\ main_w = InitMain
    /\ target_w = InitTarget
    /\ td_w = <<>>
    /\ events = <<>>
    /\ last_learn = -1
    /\ last_sync = -1
    /\ call = NoCall
    /\ runs = NoRuns
    /\ EnvIdle
    /\ PlayIdle

\* The order of the statements of one iteration of `while not done`.
PcAfterSyncFirst(p) ==
    CASE p = "act" -> "step"
      [] p = "step" -> "store"
      [] p = "store" -> "sync"
      [] p = "sync" -> "learn"
      [] p = "learn" -> "incr"
PcAfter(p) ==
    CASE p = "act" -> "step"
      [] p = "step" -> "store"
      [] p = "store" -> "learn"
      [] p = "learn" -> "sync"
      [] p = "sync" -> "incr"

\* while total_step < self.training_frames: state = self.env.reset(); done = False
EpisodeStart ==
    /\ pc = "while"
    /\ total_step < training_frames
    /\ done' = FALSE
    /\ events' = <<"RESET">>
    /\ pc' = "act"
    /\ UNCHANGED <<bufVars, envVars, playVars, total_step, episode, eps, action, main_w, target_w, td_w,
                   last_learn, last_sync, call, runs>>

\* The outer loop ends.
TrainFinished ==
    /\ pc = "while"
    /\ ~(total_step < training_frames)
    /\ pc' = "finished"
    /\ UNCHANGED <<bufVars, envVars, playVars, total_step, episode, done, eps, action, main_w, target_w, td_w,
                   events, last_learn, last_sync, call, runs>>

\* eps = self.get_eps(total_step); action = self.get_action(state, eps).
\* The environment lets an episode run at most MaxOverrun steps past
\* training_frames.
Act ==
    /\ pc = "act"
    /\ total_step < training_frames + MaxOverrun
    /\ eps' = get_eps(total_step)
    /\ \E u \in UValues, q \in QVectors : action' \in GetAction(u, eps', q)
    /\ events' = <<"ACT">>
    /\ pc' = PcAfter(pc)
    /\ UNCHANGED <<bufVars, envVars, playVars, total_step, episode, done, main_w, target_w, td_w,
                   last_learn, last_sync, call, runs>>

\* next_state, reward, done, info = self.env.step(action)
EnvStep ==
    /\ pc = "step"
    /\ done' \in BOOLEAN
    /\ events' = Append(events, "STEP")
    /\ pc' = PcAfter(pc)
    /\ UNCHANGED <<bufVars, envVars, playVars, total_step, episode, eps, action, main_w, target_w, td_w,
                   last_learn, last_sync, call, runs>>

\* self.memory.append(state, action, reward, done, next_state)
Store ==
    /\ pc = "store"
    /\ appended' = appended + 1
    /\ buffer' = DequeAppend(buffer, appended + 1, size)
    /\ current_size' = Len(buffer')
    /\ op' = "append"
    /\ arg' = NoArg
    /\ ret' = Returned(<<>>)
    /\ events' = Append(events, "STORE")
    /\ pc' = PcAfter(pc)
    /\ UNCHANGED <<envVars, playVars, kind, size, batch_size, priorities, total_step, episode, done, eps, action,
                   main_w, target_w, td_w, last_learn, last_sync, call, runs>>

\* The conditions of lines 167 and 174.
LearnDueNoWarmup(ts) == ts % update_frequency = 0
LearnDue(ts) == ts % update_frequency = 0 /\ ts > replay_start_size
SyncDue(ts) == ts % target_network_update_freq = 0 /\ ts > replay_start_size

\* The network whose parameters give next_state_q (line 116).
TDNetwork(mw, tw) == tw

\* optimizer.apply_gradients on self.model.trainable_variables.
ApplyGradients(mw) == [i \in 1..Len(mw) |-> mw[i] + 1]

\* The target network's variables after a gradient step on the main
\* network: they are storage of their own.
TargetAfterGradientsAliased(tw, mw_old, mw_new) == IF tw = mw_old THEN mw_new ELSE tw
TargetAfterGradients(tw, mw_old, mw_new) == tw

\* indices = get_sample_indices(); batch = get_sample(indices);
\* update_main_q_network(batch).  An IndexError of get_sample ends train.
Learn ==
    /\ pc = "learn"
    /\ LearnDue(total_step)
    /\ \E ix \in SeqsOf(0..(RandintHigh(size, current_size) - 1), batch_size) :
           /\ arg' = [indices |-> ix, abs_errors |-> <<>>]
           /\ ret' = GetSample(buffer, ix)
    /\ op' = "get_sample"
    /\ IF ret'.ok
       THEN /\ td_w' = TDNetwork(main_w, target_w)
            /\ main_w' = ApplyGradients(main_w)
            /\ target_w' = TargetAfterGradients(target_w, main_w, main_w')
            /\ last_learn' = total_step
            /\ events' = Append(events, "LEARN")
            /\ pc' = PcAfter(pc)
       ELSE /\ pc' = "crashed"
            /\ UNCHANGED <<td_w, main_w, target_w, last_learn, events>>
    /\ UNCHANGED <<envVars, playVars, kind, size, batch_size, buffer, priorities, current_size,
                   appended, total_step, episode, done, eps, action, last_sync, call, runs>>

SkipLearn ==
    /\ pc = "learn"
    /\ ~LearnDue(total_step)
    /\ pc' = PcAfter(pc)
    /\ UNCHANGED <<bufVars, envVars, playVars, total_step, episode, done, eps, action, main_w, target_w, td_w,
                   events, last_learn, last_sync, call, runs>>

\* update_target_network: target_var.assign(main_var) over
\* zip(main_vars, target_vars).
ZipAssignFirst(mw, tw) ==
    [i \in 1..Len(tw) |-> IF i = 1 /\ i <= Len(mw) THEN mw[i] ELSE tw[i]]
ZipAssign(mw, tw) ==
    [i \in 1..Len(tw) |-> IF i <= Len(mw) THEN mw[i] ELSE tw[i]]

Sync ==
    /\ pc = "sync"
    /\ SyncDue(total_step)
    /\ target_w' = ZipAssign(main_w, target_w)
    /\ last_sync' = total_step
    /\ events' = Append(events, "SYNC")
    /\ pc' = PcAfter(pc)
    /\ UNCHANGED <<bufVars, envVars, playVars, total_step, episode, done, eps, action, main_w, td_w,
                   last_learn, call, runs>>

SkipSync ==
    /\ pc = "sync"
    /\ ~SyncDue(total_step)
    /\ pc' = PcAfter(pc)
    /\ UNCHANGED <<bufVars, envVars, playVars, total_step, episode, done, eps, action, main_w, target_w, td_w,
                   events, last_learn, last_sync, call, runs>>

\* total_step += 1, kept across episodes.
TotalStepAfter(ts, d) == ts + 1

\* total_step += 1; if done: episode += 1 and the inner loop ends, else it
\* goes round again without a look at training_frames.
EndOfStep ==
    /\ pc = "incr"
    /\ total_step' = TotalStepAfter(total_step, done)
    /\ episode' = IF done THEN episode + 1 ELSE episode
    /\ pc' = IF done THEN "while" ELSE "act"
    /\ UNCHANGED <<bufVars, envVars, playVars, done, eps, action, main_w, target_w, td_w, events,
                   last_learn, last_sync, call, runs>>

TrainNext ==
    \/ EpisodeStart
    \/ TrainFinished
    \/ Act
    \/ EnvStep
    \/ Store
    \/ Learn
    \/ SkipLearn
    \/ Sync
    \/ SkipSync
    \/ EndOfStep

SpecTrain == TrainInit /\ [][TrainNext]_vars

----------------------------------------------------------------------------
\* Properties of the three functions

\* C16: for a sample with done = TRUE the TD target equals exactly the
\* reward, whatever the target network puts out for the next state; for
\* done = FALSE it equals reward + gamma * max_a target_network(next_state)[a].
TDTargetTerminal ==
    call.fn = "td_target" =>
        /\ call.done => call.out = 100 * call.reward
        /\ ~call.done =>
               \E i \in 1..Len(call.q) :
                   /\ \A j \in 1..Len(call.q) : call.q[j] <= call.q[i]
                   /\ call.out = 100 * call.reward + gamma * call.q[i]

\* A terminal sample with a non-zero reward whose next state has a non-zero
\* maximal Q-value.
TDTargetTerminalWitness ==
    /\ call.fn = "td_target" /\ call.done /\ call.reward # 0
    /\ \A i \in 1..Len(call.q) : call.q[i] > 0

\* C17: get_eps is piecewise linear and non-increasing: epsilon_start before
\* replay_start_size, linear down to exactly epsilon_end at
\* epsilon_decay_steps, linear down to exactly terminal_eps at
\* terminal_frame_factor * epsilon_decay_steps, terminal_eps afterwards; the
\* segments agree at their shared boundary steps and the value always lies
\* in [terminal_eps, epsilon_start].
EpsilonSchedule ==
    call.fn = "get_eps" =>
        LET st == call.step
            v == call.out
            pst == call.prev_step
            pv == call.prev_out
        IN  /\ st <= replay_start_size => v = epsilon_start * EpsDen
            /\ st = epsilon_decay_steps => v = epsilon_end * EpsDen
            /\ st >= terminal_eps_frame => v = terminal_eps * EpsDen
            /\ terminal_eps * EpsDen <= v
            /\ v <= epsilon_start * EpsDen
            /\ (pst >= 0 /\ pst <= st) => pv >= v
            /\ (pst + 1 = st /\ replay_start_size <= pst /\ st <= epsilon_decay_steps) =>
                   (v - pv) * (epsilon_decay_steps - replay_start_size)
                       = (epsilon_end - epsilon_start) * EpsDen
            /\ (pst + 1 = st /\ epsilon_decay_steps <= pst /\ st <= terminal_eps_frame) =>
                   (v - pv) * (terminal_eps_frame - epsilon_decay_steps)
                       = (terminal_eps - epsilon_end) * EpsDen

\* get_eps was applied to the step before epsilon_decay_steps and then to a
\* step inside the last sloped segment.
EpsilonScheduleWitness ==
    /\ call.fn = "get_eps"
    /\ call.prev_step = epsilon_decay_steps - 1
    /\ call.step > epsilon_decay_steps /\ call.step < terminal_eps_frame
    /\ call.out < call.prev_out

\* C18: get_action returns an action index in [0, n_actions); when the
\* uniform draw is below exploration_rate the action is a random index and
\* self.model is not evaluated, otherwise it is the first index maximising
\* self.model's Q-values; with exploration_rate = 0 it is always the argmax.
EpsilonGreedy ==
    call.fn = "get_action" =>
        /\ call.out \in 0..(n_actions - 1)
        /\ call.u < call.rate => ~call.consulted
        /\ call.u >= call.rate =>
               /\ call.consulted
               /\ \A j \in 1..Len(call.q) : call.q[j] <= call.q[call.out + 1]
               /\ \A j \in 1..call.out : call.q[j] < call.q[call.out + 1]
        /\ call.rate = 0 => call.consulted

\* A greedy choice among tied maximal Q-values, at a positive rate.
EpsilonGreedyWitness ==
    /\ call.fn = "get_action" /\ call.consulted /\ call.rate > 0
    /\ \E i, j \in 1..Len(call.q) : i # j /\ call.q[i] = call.q[j] /\ call.q[i] = MaxQ

----------------------------------------------------------------------------
\* Properties of the training loop

InEvents(e) == \E i \in 1..Len(events) : events[i] = e

\* C11: whenever LEARN fires (a batch is sampled and update_main_q_network
\* is called) the replay buffer holds at least replay_start_size transitions.
LearnOnWarmBuffer ==
    InEvents("LEARN") => Len(buffer) >= replay_start_size

\* What holds of a state for C12: once the conditions of a step have been
\* evaluated, LEARN has fired exactly if total_step is a multiple of
\* update_frequency past the warm-up, SYNC exactly if it is a multiple of
\* target_network_update_freq past the warm-up, and neither has ever fired
\* while total_step <= replay_start_size.
CadenceState ==
    /\ pc \in {"sync", "incr"} =>
           (InEvents("LEARN") <=>
                (total_step % update_frequency = 0 /\ total_step > replay_start_size))
    /\ pc = "incr" =>
           (InEvents("SYNC") <=>
                (total_step % target_network_update_freq = 0 /\ total_step > replay_start_size))
    /\ total_step <= replay_start_size =>
           /\ ~InEvents("LEARN")
           /\ ~InEvents("SYNC")
           /\ last_learn = -1
           /\ last_sync = -1

\* C12: neither LEARN nor SYNC fires during warm-up; after it LEARN fires at
\* exactly the steps that are multiples of update_frequency and SYNC at
\* exactly the multiples of target_network_update_freq, so consecutive LEARNs
\* are update_frequency steps apart and consecutive SYNCs
\* target_network_update_freq apart, also across episodes: the step counter
\* is never reset.
LearnSyncCadence ==
    [][ /\ CadenceState'
        /\ (last_learn' # last_learn /\ last_learn >= 0) =>
               last_learn' = last_learn + update_frequency
        /\ (last_sync' # last_sync /\ last_sync >= 0) =>
               last_sync' = last_sync + target_network_update_freq
        /\ total_step' \in {total_step, total_step + 1}
      ]_vars

\* A second SYNC has fired, in a later episode than the first step, in a step
\* in which LEARN fired too.
LearnSyncCadenceWitness ==
    /\ pc = "incr" /\ InEvents("LEARN") /\ InEvents("SYNC")
    /\ last_sync >= 2 * target_network_update_freq
    /\ episode >= 1

Rank(e) ==
    CASE e = "RESET" -> 0
      [] e = "ACT" -> 1
      [] e = "STEP" -> 2
      [] e = "STORE" -> 3
      [] e = "LEARN" -> 4
      [] e = "SYNC" -> 5

\* C13: in every iteration the events occur in the order ACT, STEP, STORE,
\* then optionally LEARN, then optionally SYNC; the transition of the step
\* is in the buffer before that step's LEARN samples; where both LEARN and
\* SYNC fire, the target parameters end up equal to the updated main
\* parameters.
StepOrdering ==
    /\ \A i, j \in 1..Len(events) : i < j => Rank(events[i]) < Rank(events[j])
    /\ (Len(events) >= 1 /\ events[1] # "RESET") => events[1] = "ACT"
    /\ Len(events) >= 2 => events[2] = "STEP"
    /\ Len(events) >= 3 => events[3] = "STORE"
    /\ InEvents("LEARN") =>
           /\ Len(buffer) > 0
           /\ buffer[Len(buffer)] = appended
           /\ appended = last_learn + 1
    /\ (InEvents("LEARN") /\ InEvents("SYNC")) =>
           /\ target_w = main_w
           /\ \A i \in 1..Len(td_w) : td_w[i] < target_w[i]

\* A step in which both LEARN and SYNC fired.
StepOrderingWitness ==
    events = <<"ACT", "STEP", "STORE", "LEARN", "SYNC">>

\* C14: update_main_q_network changes the main network's parameters only;
\* the target network's parameters change only where SYNC fires (until the
\* first SYNC they are the initial ones); every TD target is computed from
\* the target network's parameters.
TargetFrozen ==
    [][ /\ target_w' # target_w =>
               (events' = Append(events, "SYNC") /\ last_sync' = total_step)
        /\ last_sync' = -1 => target_w' = InitTarget
        /\ events' = Append(events, "LEARN") =>
               /\ td_w' = target_w
               /\ target_w' = target_w
               /\ \A i \in 1..Len(main_w) : main_w'[i] # main_w[i]
      ]_vars

\* A LEARN after a SYNC took its TD targets from the target parameters while
\* the main parameters it updated were already different from them.
TargetFrozenWitness ==
    /\ pc = "sync" /\ InEvents("LEARN")
    /\ last_sync >= 0
    /\ td_w = target_w
    /\ \A i \in 1..Len(main_w) : target_w[i] + 1 < main_w[i]

\* C15: right after update_target_network every parameter of the target
\* network equals the corresponding parameter of the main network, the main
\* parameters are unchanged by the call, and a later update of the main
\* network does not alter the target copy.
HardTargetSync ==
    [][ /\ events' = Append(events, "SYNC") =>
               /\ Len(target_w') = Len(main_w)
               /\ \A i \in 1..Len(main_w) : target_w'[i] = main_w[i]
               /\ main_w' = main_w
        /\ (events' = Append(events, "LEARN") /\ target_w = main_w) =>
               /\ target_w' = target_w
               /\ \A i \in 1..Len(main_w) : main_w'[i] # target_w'[i]
      ]_vars

\* The main network was updated after a SYNC and the copy stayed behind.
HardTargetSyncWitness ==
    /\ last_sync >= 0 /\ last_learn > last_sync
    /\ \A i \in 1..Len(main_w) : target_w[i] + 1 = main_w[i]

\* C19: no environment step is executed once total_step has reached
\* training_frames, and the loop does not start another iteration then.
NoStepPastBudget ==
    /\ (pc \in {"store", "learn", "sync", "incr"} /\ InEvents("STEP")) =>
           total_step < training_frames
    /\ pc \in {"act", "step"} => total_step < training_frames

----------------------------------------------------------------------------
\* Two runs of the agent from the same initial state

\* Steps of each run that are compared.
MaxReproSteps == 2

\* Both runs have the same initial parameters and the same deterministic
\* environment, so that self.model puts out the same Q-values in both.
ReproQ == [i \in 1..n_actions |-> 0]

ReproInit ==
    /\ kind = "ER"
    /\ size = memory_size
    /\ batch_size = train_batch_size
    /\ current_size = 0
    /\ buffer = <<>>
    /\ priorities = <<>>
    /\ appended = 0
    /\ op = "init"
    /\ arg = NoArg
    /\ ret = Returned(<<>>)
    /\ pc = "idle"
    /\ total_step = 0
    /\ episode = 0
    /\ done = FALSE
    /\ eps = 0
    /\ action = [action |-> 0, consulted |-> FALSE]
    /\ main_w = <<>>
    /\ target_w = <<>>
    /\ td_w = <<>>
    /\ events = <<>>
    /\ last_learn = -1
    /\ last_sync = -1
    /\ call = NoCall
    /\ runs = NoRuns
    /\ EnvIdle
    /\ PlayIdle

\* One step of run r: get_action draws from tf.random.uniform and
\* get_sample_indices from np.random.randint.  These are two generators, the
\* global ones of TensorFlow and of NumPy, and the program seeds neither: a
\* draw is not determined by anything the run starts from.
ReproStep(r) ==
    /\ Len(runs[r].actions) < MaxReproSteps
    /\ \E u \in UValues :
           \E a \in GetAction(u, get_eps(Len(runs[r].actions)), ReproQ) :
               \E ix \in SeqsOf(0..(RandintHigh(size, current_size) - 1), batch_size) :
                   runs' = [runs EXCEPT ![r] = [actions |-> Append(@.actions, a.action),
                                                samples |-> Append(@.samples, ix)]]
    /\ UNCHANGED <<bufVars, envVars, playVars, pc, total_step, episode, done, eps, action, main_w, target_w,
                   td_w, events, last_learn, last_sync, call>>

ReproNext == \E r \in 1..2 : ReproStep(r)

SpecRepro == ReproInit /\ [][ReproNext]_vars

\* C20: two runs from identical seeds, identical initial parameters and an
\* identical deterministic environment produce identical action sequences and
\* identical sampled-index sequences for the first N steps.
Reproducible ==
    \A k \in 1..MaxReproSteps :
        (k <= Len(runs[1].actions) /\ k <= Len(runs[2].actions)) =>
            /\ runs[1].actions[k] = runs[2].actions[k]
            /\ runs[1].samples[k] = runs[2].samples[k]

----------------------------------------------------------------------------
\* Sampling inside the training loop

\* C25: in Agent.train, with a buffer capacity below replay_start_size as
\* configured, every index passed to memory.get_sample at a LEARN is smaller
\* than len(memory): get_sample never indexes past the stored transitions.
SampleInRangeInTrain ==
    /\ pc # "crashed"
    /\ op = "get_sample" =>
           /\ ret.ok
           /\ \A i \in 1..Len(arg.indices) : arg.indices[i] < Len(buffer)

\* A LEARN has drawn the highest index np.random.randint can give,
\* self.size - 1, and get_sample returned the batch.
SampleInRangeWitness ==
    /\ pc = "sync" /\ InEvents("LEARN") /\ op = "get_sample" /\ ret.ok
    /\ \E i \in 1..Len(arg.indices) : arg.indices[i] = size - 1

----------------------------------------------------------------------------
\* Appends to a prioritized buffer whose priorities are all equal

AllEqual(p) == \A i, j \in 1..Len(p) : p[i] = p[j]

\* C26: an append to a prioritized buffer at capacity whose priorities are
\* all equal overwrites slot 0, keeps the transitions of slots 1..C-1 and
\* leaves the priorities as they were, all equal; so for as long as
\* update_priorities is not called every append lands on slot 0.
EqualPriorityStagnation ==
    [][ (kind = "PER" /\ Len(buffer) = size /\ AllEqual(priorities)
         /\ op' = "append" /\ appended' = appended + 1) =>
          /\ buffer'[1] = appended'
          /\ \A j \in 2..size : buffer'[j] = buffer[j]
          /\ Len(buffer') = size
          /\ priorities' = priorities
          /\ AllEqual(priorities')
      ]_vars

\* Two appends at capacity in a row have landed on slot 0: slots 1..C-1 still
\* hold the transitions of the first fill and slot 0 the newest one.
EqualPriorityStagnationWitness ==
    /\ kind = "PER" /\ size >= 2 /\ op = "append" /\ appended >= size + 2
    /\ Len(buffer) = size /\ AllEqual(priorities)
    /\ buffer[1] = appended
    /\ \A j \in 2..size : buffer[j] = j

----------------------------------------------------------------------------
\* The environment wrappers of game.py, each around an environment of which
\* nothing is known but what its step and reset return

\* Bounds: life counts, distinct frames, calls made on a wrapper.
MaxLives == 2
NObs == 2
MaxEnvCalls == 5
limit == 3                          \* StepLimit(env, limit=10000)
frame_stack == 2                    \* StackFrame(env, frame_stack=4)

\* What self.env.step can return: the frame, the reward, done, and the
\* life count env.unwrapped.ale.lives() reads afterwards.  Frames, rewards
\* and lives are told apart only for the wrapper that looks at them.
ObsOf(w) == IF w = "StackFrame" THEN 1..NObs ELSE {1}
LivesOf(w) == IF w = "EpisodicLife" THEN 0..MaxLives ELSE {0}
RewardsOf(w) == IF w = "EpisodicLife" THEN 0..MaxReward ELSE {0}
StepOutcomes(w) == [obs : ObsOf(w), reward : RewardsOf(w), done : BOOLEAN, lives : LivesOf(w)]
ResetOutcomes(w) == [obs : ObsOf(w), lives : LivesOf(w)]

\* self.env after self.env.step(a) returned o, after self.env.reset() returned o.
InnerAfterStep(e, a, o) ==
    [e EXCEPT !.steps = @ + 1, !.lives = o.lives, !.last_done = o.done, !.last_action = a]
InnerAfterReset(e, o) ==
    [e EXCEPT !.resets = @ + 1, !.lives = o.lives]

WrapperInit ==
    /\ wrapper \in {"EpisodicLife", "StepLimit", "StackFrame"}
    /\ lives = 0
    /\ was_real_done = TRUE
    /\ episode_returns = 0
    /\ step_count = 0
    /\ frames = <<>>
    /\ inner \in {[NoInner EXCEPT !.lives = l] : l \in LivesOf(wrapper)}
    /\ wret = NoWret
    /\ hist = NoHist
    /\ kind = "ER"
    /\ size = 1
    /\ batch_size = 1
    /\ current_size = 0
    /\ buffer = <<>>
    /\ priorities = <<>>
    /\ appended = 0
    /\ op = "init"
    /\ arg = NoArg
    /\ ret = Returned(<<>>)
    /\ AgentIdle
    /\ PlayIdle

\* The record of a call: what it was, and what it returned.
Wret(o, ok, obs, d) == [op |-> o, ok |-> ok, obs |-> obs, done |-> d]

\* The history after a step call that returned done d while self.env
\* returned frame ob and done inner_done.
HistAfterStep(h, ob, d, inner_done) ==
    [h EXCEPT !.calls = @ + 1,
              !.since_reset = @ + 1,
              !.ep_len = IF h.ep_over THEN @ ELSE @ + 1,
              !.ep_over = h.ep_over \/ d,
              !.step_done = inner_done,
              !.obs_hist = IF wrapper = "StackFrame" THEN Append(@, ob) ELSE @]
HistAfterReset(h, ob) ==
    [h EXCEPT !.calls = @ + 1,
              !.reset_called = TRUE,
              !.since_reset = 0,
              !.ep_len = 0,
              !.ep_over = FALSE,
              !.obs_hist = IF wrapper = "StackFrame" THEN <<ob>> ELSE @]

\* EpisodicLife.step: done of lines 46-47.
EpisodicDoneNoOverride(tracked, now, d) == d
EpisodicDone(tracked, now, d) == IF tracked > now /\ now > 0 THEN TRUE ELSE d

EpisodicLife_step ==
    /\ wrapper = "EpisodicLife"
    /\ hist.calls < MaxEnvCalls
    /\ \E a \in 0..(n_actions - 1), o \in StepOutcomes(wrapper) :
           /\ inner' = InnerAfterStep(inner, a, o)
           /\ was_real_done' = o.done
           /\ lives' = o.lives
           /\ episode_returns' = episode_returns + o.reward
           /\ wret' = Wret("step", TRUE, <<o.obs>>, EpisodicDone(lives, o.lives, o.done))
           /\ hist' = HistAfterStep(hist, o.obs, wret'.done, o.done)
    /\ UNCHANGED <<bufVars, agentVars, playVars, wrapper, step_count, frames>>

\* EpisodicLife.reset: whether self.env.reset() is called (line 57).
RealResetDueAlways(wrd) == TRUE
RealResetDue(wrd) == wrd

\* EpisodicLife.reset: a reset of self.env, or one step of it with action 0
\* whose reward and done are dropped.
EpisodicLife_reset ==
    /\ wrapper = "EpisodicLife"
    /\ hist.calls < MaxEnvCalls
    /\ IF RealResetDue(was_real_done)
       THEN \E o \in ResetOutcomes(wrapper) :
                /\ episode_returns' = 0
                /\ inner' = InnerAfterReset(inner, o)
                /\ lives' = o.lives
                /\ wret' = Wret("reset", TRUE, <<o.obs>>, FALSE)
                /\ hist' = HistAfterReset(hist, o.obs)
       ELSE \E o \in StepOutcomes(wrapper) :
                /\ episode_returns' = episode_returns
                /\ inner' = InnerAfterStep(inner, 0, o)
                /\ lives' = o.lives
                /\ wret' = Wret("reset", TRUE, <<o.obs>>, FALSE)
                /\ hist' = HistAfterReset(hist, o.obs)
    /\ UNCHANGED <<bufVars, agentVars, playVars, wrapper, was_real_done, step_count, frames>>

\* StepLimit.step: done of lines 192-193.
StepLimitDoneAfter(count, lim, d) == IF count > lim THEN TRUE ELSE d
StepLimitDone(count, lim, d) == IF count >= lim THEN TRUE ELSE d

StepLimit_step ==
    /\ wrapper = "StepLimit"
    /\ hist.calls < MaxEnvCalls
    /\ \E a \in 0..(n_actions - 1), o \in StepOutcomes(wrapper) :
           /\ inner' = InnerAfterStep(inner, a, o)
           /\ step_count' = step_count + 1
           /\ wret' = Wret("step", TRUE, <<o.obs>>, StepLimitDone(step_count', limit, o.done))
           /\ hist' = HistAfterStep(hist, o.obs, wret'.done, o.done)
    /\ UNCHANGED <<bufVars, agentVars, playVars, wrapper, lives, was_real_done, episode_returns,
                   frames>>

StepLimit_reset ==
    /\ wrapper = "StepLimit"
    /\ hist.calls < MaxEnvCalls
    /\ step_count' = 0
    /\ \E o \in ResetOutcomes(wrapper) :
           /\ inner' = InnerAfterReset(inner, o)
           /\ wret' = Wret("reset", TRUE, <<o.obs>>, FALSE)
           /\ hist' = HistAfterReset(hist, o.obs)
    /\ UNCHANGED <<bufVars, agentVars, playVars, wrapper, lives, was_real_done, episode_returns,
                   frames>>

\* for _ in range(self.frame_stack): self.frames.append(ob)
RECURSIVE AppendTimes(_, _, _, _)
AppendTimes(d, ob, n, maxlen) ==
    IF n = 0 THEN d ELSE AppendTimes(DequeAppend(d, ob, maxlen), ob, n - 1, maxlen)

\* StackFrame._get_ob: the assertion, then the frames as a list.
GetOb(fr) == IF Len(fr) = frame_stack THEN Returned(fr) ELSE Raised

StackFrame_reset ==
    /\ wrapper = "StackFrame"
    /\ hist.calls < MaxEnvCalls
    /\ \E o \in ResetOutcomes(wrapper) :
           /\ inner' = InnerAfterReset(inner, o)
           /\ frames' = AppendTimes(frames, o.obs, frame_stack, frame_stack)
           /\ wret' = Wret("reset", GetOb(frames').ok, GetOb(frames').val, FALSE)
           /\ hist' = HistAfterReset(hist, o.obs)
    /\ UNCHANGED <<bufVars, agentVars, playVars, wrapper, lives, was_real_done, episode_returns,
                   step_count>>

StackFrame_step ==
    /\ wrapper = "StackFrame"
    /\ hist.calls < MaxEnvCalls
    /\ \E a \in 0..(n_actions - 1), o \in StepOutcomes(wrapper) :
           /\ inner' = InnerAfterStep(inner, a, o)
           /\ frames' = DequeAppend(frames, o.obs, frame_stack)
           /\ wret' = Wret("step", GetOb(frames').ok, GetOb(frames').val,
                           GetOb(frames').ok /\ o.done)
           /\ hist' = HistAfterStep(hist, o.obs, wret'.done, o.done)
    /\ UNCHANGED <<bufVars, agentVars, playVars, wrapper, lives, was_real_done, episode_returns,
                   step_count>>

WrapperNext ==
    \/ EpisodicLife_step
    \/ EpisodicLife_reset
    \/ StepLimit_step
    \/ StepLimit_reset
    \/ StackFrame_reset
    \/ StackFrame_step

SpecWrapper == WrapperInit /\ [][WrapperNext]_vars

----------------------------------------------------------------------------
\* Properties of the wrappers

\* What a call of EpisodicLife.step has to have done: if the life count of
\* the wrapped environment fell during the call and is still positive, done
\* is True whatever the environment reported.
LifeLossEndsEpisode ==
    (wret'.op = "step" /\ hist.calls > 0 /\ inner.lives > inner'.lives /\ inner'.lives > 0) =>
        wret'.done

\* What a call of EpisodicLife.reset has to have done, where due tells
\* whether a reset of the wrapped environment is due: if so that reset and
\* no step, if not one step with action 0 in the same game; and the tracked
\* life count is the environment's afterwards.
ResetAsDue(due) ==
    wret'.op = "reset" =>
        /\ (inner'.resets = inner.resets + 1) <=> due
        /\ due => inner'.steps = inner.steps
        /\ ~due => /\ inner'.resets = inner.resets
                   /\ inner'.steps = inner.steps + 1
                   /\ inner'.last_action = 0
        /\ lives' = inner'.lives

\* C21 as stated: step reports done whenever the life count dropped to a
\* still-positive value; reset resets the wrapped environment exactly if the
\* most recent step of the wrapped environment reported game over (or it
\* has not been stepped yet), and otherwise advances the same game by one
\* no-op step; after reset the tracked life count is the environment's.
EpisodicLifeMostRecentStep ==
    [][ (wrapper = "EpisodicLife" /\ hist'.calls = hist.calls + 1) =>
          /\ LifeLossEndsEpisode
          /\ ResetAsDue(inner.steps = 0 \/ inner.last_done)
      ]_vars

\* C21, amended: as above, but reset resets the wrapped environment exactly
\* if the most recent call of EpisodicLife.step had the wrapped environment
\* report game over (or step has not been called yet); the no-op step that
\* reset itself takes does not count, whatever it reports.
EpisodicLifeLastStepCall ==
    [][ (wrapper = "EpisodicLife" /\ hist'.calls = hist.calls + 1) =>
          /\ LifeLossEndsEpisode
          /\ ResetAsDue(hist.step_done)
      ]_vars

\* A step reported done for a lost life while the game was not over, and
\* the reset that followed took one no-op step in the same game.
EpisodicLifeWitness ==
    /\ wrapper = "EpisodicLife" /\ wret.op = "reset"
    /\ inner.resets = 1 /\ inner.steps = 2 /\ inner.last_action = 0
    /\ ~hist.step_done /\ ~was_real_done
    /\ lives = inner.lives /\ lives > 0

\* C22: step_count is the number of step calls since the last reset, reset
\* sets it to 0, every step with step_count >= limit reports done, and so no
\* episode (from a reset to the first done) is longer than limit steps,
\* whatever the wrapped environment reports.
StepLimitBoundsEpisode ==
    wrapper = "StepLimit" =>
        /\ step_count = hist.since_reset
        /\ wret.op = "reset" => step_count = 0
        /\ (wret.op = "step" /\ step_count >= limit) => wret.done
        /\ hist.ep_len <= limit
        /\ hist.ep_len = limit => hist.ep_over

\* An episode ran for limit steps after a reset without the wrapped
\* environment ever reporting done, and the last step reported done.
StepLimitWitness ==
    /\ wrapper = "StepLimit" /\ hist.reset_called /\ wret.op = "step"
    /\ step_count = limit /\ hist.ep_len = limit /\ hist.ep_over
    /\ wret.done /\ ~inner.last_done

\* The last n entries of s.
LastN(s, n) == SubSeq(s, Len(s) - n + 1, Len(s))

\* The frames the wrapped environment has returned since the last reset,
\* the reset frame frame_stack times.
FramesSinceReset(h) == [i \in 1..(frame_stack - 1) |-> h[1]] \o h

\* C23: once reset has been called, every observation returned by reset or
\* step is a stack of exactly frame_stack frames (the assertion never
\* fails), the stack after reset is frame_stack copies of the reset frame,
\* and the stack is always the most recent frame_stack frames in order.
StackFrameValid ==
    (wrapper = "StackFrame" /\ hist.reset_called) =>
        /\ wret.ok
        /\ Len(wret.obs) = frame_stack
        /\ wret.obs = LastN(FramesSinceReset(hist.obs_hist), frame_stack)
        /\ wret.op = "reset" => \A i \in 1..frame_stack : wret.obs[i] = hist.obs_hist[1]

\* After a reset more than frame_stack steps have been made, so that the
\* reset frame and the first step's frame have been dropped, and the stack
\* holds two frames that differ.
StackFrameWitness ==
    /\ wrapper = "StackFrame" /\ hist.reset_called /\ wret.op = "step" /\ wret.ok
    /\ hist.since_reset > frame_stack
    /\ wret.obs[frame_stack - 1] # wret.obs[frame_stack]

----------------------------------------------------------------------------
\* Agent.play

\* play(trial=5, max_playing_time=10) and the 15 * 60 frames of a minute,
\* scaled down.
trial == 2
max_playing_time == 2
frames_per_minute == 2

\* test_memory = ExperienceReplay(1000000)
test_memory_size == 1000000

\* The most frames a trial may have collected and still go on.
MaxFrames == frames_per_minute * max_playing_time

\* self.life_game is whatever __init__ read from info["lives"]; the test
\* environment is made and nothing has been played.
PlayInit ==
    /\ play_pc = "for"
    /\ life_game \in BOOLEAN
    /\ trial_i = 0
    /\ test_step = 0
    /\ n_frames = 0
    /\ info_lives = 0
    /\ trial_steps = 0
    /\ kind = "ER"
    /\ size = test_memory_size
    /\ batch_size = 1
    /\ current_size = 0
    /\ buffer = <<>>
    /\ priorities = <<>>
    /\ appended = 0
    /\ op = "init"
    /\ arg = NoArg
    /\ ret = Returned(<<>>)
    /\ AgentIdle
    /\ EnvIdle

\* for _ in range(trial): state = test_env.reset(); frames = []; ...
PlayTrialStart ==
    /\ play_pc = "for"
    /\ trial_i < trial
    /\ n_frames' = 0
    /\ test_step' = 0
    /\ trial_steps' = 0
    /\ done' = FALSE
    /\ buffer' = <<>>
    /\ current_size' = 0
    /\ appended' = 0
    /\ op' = "init"
    /\ play_pc' = "while"
    /\ UNCHANGED <<envVars, kind, size, batch_size, priorities, arg, ret, pc, total_step, episode,
                   eps, action, main_w, target_w, td_w, events, last_learn, last_sync, call,
                   runs, life_game, trial_i, info_lives>>

\* The for loop is over: best_score and the summary.
PlayFinished ==
    /\ play_pc = "for"
    /\ ~(trial_i < trial)
    /\ play_pc' = "finished"
    /\ UNCHANGED <<bufVars, agentVars, envVars, life_game, trial_i, test_step, n_frames,
                   info_lives, trial_steps>>

\* while not done
PlayWhile ==
    /\ play_pc = "while"
    /\ play_pc' = IF ~done THEN "step" ELSE "end"
    /\ UNCHANGED <<bufVars, agentVars, envVars, life_game, trial_i, test_step, n_frames,
                   info_lives, trial_steps>>

\* What self.get_action(state, 0.0) can return, over the uniform draws and the
\* outputs of self.model.
GreedyActions == UNION {GetAction(u, 0, q) : u \in UValues, q \in QVectors}

\* frames.append(render()); action = get_action(state, 0.0);
\* next_state, reward, done, info = test_env.step(action);
\* test_memory.append(...); test_step += 1
PlayStep ==
    /\ play_pc = "step"
    /\ n_frames' = n_frames + 1
    /\ action' \in GreedyActions
    /\ done' \in BOOLEAN
    /\ info_lives' \in 0..MaxLives
    /\ trial_steps' = trial_steps + 1
    /\ appended' = appended + 1
    /\ buffer' = DequeAppend(buffer, appended + 1, size)
    /\ current_size' = Len(buffer')
    /\ op' = "append"
    /\ test_step' = test_step + 1
    /\ play_pc' = "life"
    /\ UNCHANGED <<envVars, kind, size, batch_size, priorities, arg, ret, pc, total_step, episode,
                   eps, main_w, target_w, td_w, events, last_learn, last_sync, call, runs,
                   life_game, trial_i>>

\* if done and self.life_game and (info["lives"] != 0)
LifeOverride(d, lg, l) == d /\ lg /\ l # 0

\* test_env.reset(); test_step = 0; done = False
PlayLifeReset ==
    /\ play_pc = "life"
    /\ LifeOverride(done, life_game, info_lives)
    /\ test_step' = 0
    /\ done' = FALSE
    /\ play_pc' = "limit"
    /\ UNCHANGED <<bufVars, envVars, pc, total_step, episode, eps, action, main_w, target_w,
                   td_w, events, last_learn, last_sync, call, runs, life_game, trial_i,
                   n_frames, info_lives, trial_steps>>

PlayLifeKeep ==
    /\ play_pc = "life"
    /\ ~LifeOverride(done, life_game, info_lives)
    /\ play_pc' = "limit"
    /\ UNCHANGED <<bufVars, agentVars, envVars, life_game, trial_i, test_step, n_frames,
                   info_lives, trial_steps>>

\* if len(frames) > 15 * 60 * max_playing_time
ForceStopNever(n) == FALSE
ForceStop(n) == n > MaxFrames

\* break
PlayForceStop ==
    /\ play_pc = "limit"
    /\ ForceStop(n_frames)
    /\ play_pc' = "end"
    /\ UNCHANGED <<bufVars, agentVars, envVars, life_game, trial_i, test_step, n_frames,
                   info_lives, trial_steps>>

PlayGoOn ==
    /\ play_pc = "limit"
    /\ ~ForceStop(n_frames)
    /\ play_pc' = "while"
    /\ UNCHANGED <<bufVars, agentVars, envVars, life_game, trial_i, test_step, n_frames,
                   info_lives, trial_steps>>

\* reward_set.append(test_reward); frame_set.append(frames)
PlayTrialEnd ==
    /\ play_pc = "end"
    /\ trial_i' = trial_i + 1
    /\ play_pc' = "for"
    /\ UNCHANGED <<bufVars, agentVars, envVars, life_game, test_step, n_frames, info_lives,
                   trial_steps>>

PlayNext ==
    \/ PlayTrialStart
    \/ PlayFinished
    \/ PlayWhile
    \/ PlayStep
    \/ PlayLifeReset
    \/ PlayLifeKeep
    \/ PlayForceStop
    \/ PlayGoOn
    \/ PlayTrialEnd

\* play is sequential code: while it has a statement to run, it runs it.
SpecPlay == PlayInit /\ [][PlayNext]_vars /\ WF_vars(PlayNext)

\* C24: every trial of Agent.play terminates; a trial ends only when the
\* environment reports done without the life-loss override or when more
\* than 15 * 60 * max_playing_time frames have been collected, and it makes
\* at most 15 * 60 * max_playing_time + 1 environment steps.
PlayTrialsTerminate ==
    /\ [](trial_steps <= MaxFrames + 1)
    /\ [](play_pc = "end" =>
            \/ done /\ ~(life_game /\ info_lives # 0)
            \/ n_frames > MaxFrames)
    /\ [](play_pc \in {"while", "step", "life", "limit"} => <>(play_pc = "end"))

\* A trial was stopped by the frame limit after MaxFrames + 1 steps, the
\* last of which lost a life in a life game: the environment reported no
\* final done.
PlayTrialsWitness ==
    /\ play_pc = "end" /\ ~done /\ life_game /\ info_lives # 0
    /\ n_frames = MaxFrames + 1 /\ trial_steps = MaxFrames + 1
====
